---- MODULE Spec2Model ----
(***************************************************************************)
(* Model of src/app.py: one evaluation of the trading dashboard script.    *)
(*                                                                         *)
(* The script fetches a bar frame (get_data), admits it when it has more   *)
(* than 30 rows, adds the indicator columns (MACD, RSI, rolling support    *)
(* and resistance, rejection wick), derives the per-bar Final_Buy column,  *)
(* draws the TP/SL levels of the latest buy bar and fills the three        *)
(* advisory panels.                                                        *)
(*                                                                         *)
(* Conventions.                                                            *)
(*  - A column is a sequence of optional numbers: [def, v]; pandas' NaN is *)
(*    the value with def = FALSE.  Comparisons with NaN are false, as in   *)
(*    pandas/numpy.                                                        *)
(*  - Row positions are 1-based: position i is the bar with index t = i-1. *)
(*  - Prices are integers; 1.02, 0.99, 1.5 and the percent sliders are     *)
(*    kept exact as integer ratios, and money values that involve the      *)
(*    stop-loss buffer are kept in ten-thousandths (value * 10000).        *)
(*  - ta.macd and ta.rsi are library calls: their outputs are inputs of    *)
(*    the model, constrained only by the library's warm-up shape.          *)
(***************************************************************************)
EXTENDS Integers, Sequences, FiniteSets, TLC

VARIABLES pc, sl_buffer, min_rr, df, cond_buy_price, cond_buy_rsi,
          cond_buy_macd, has_buy_signal, fig, col1, col2, col3, notice

vars == <<pc, sl_buffer, min_rr, df, cond_buy_price, cond_buy_rsi,
          cond_buy_macd, has_buy_signal, fig, col1, col2, col3, notice>>

(* ---------------------------- bounds ----------------------------------- *)

\* Longest bar frame the data source returns.
MaxBars == 38

\* Number of cells of a frame that depart from the base series.
MaxEvents == 1

(* ----------------------- program constants ----------------------------- *)

\* len(df) > 30
MinRows == 30

\* sr_period = 20
sr_period == 20

\* ta.rsi(df['Close'], length=14)
RsiLength == 14

\* df['RSI'] < 45
RsiBuyLevel == 45

\* curr['RSI'] > 70
RsiOverbought == 70

\* curr['RSI'] > 50
RsiTrendLevel == 50

\* ta.macd(df['Close']) : slow=26, signal=9
MacdSlow == 26

MacdSignal == 9

\* df['Support'] * 1.02, as a percentage
NearSupportPct == 102

\* df['Resistance'] * 0.99, as a percentage
NearResistancePct == 99

\* df['Body'] * 1.5, in tenths
WickTenths == 15

\* Column names ta.macd gives its frame: macd.columns[0..2]
m_line == "MACD_12_26_9"

m_hist == "MACDh_12_26_9"

m_signal == "MACDs_12_26_9"

(* ------------------------- optional numbers ---------------------------- *)

NaN == [def |-> FALSE, v |-> 0]

Num(x) == [def |-> TRUE, v |-> x]

\* a > b, a < b, a <= b, a >= b : false when either side is NaN
Gt(a, b) == a.def /\ b.def /\ a.v > b.v

Lt(a, b) == a.def /\ b.def /\ a.v < b.v

LeNanTrue(a, b) == ~a.def \/ ~b.def \/ a.v <= b.v

Le(a, b) == a.def /\ b.def /\ a.v <= b.v

Ge(a, b) == a.def /\ b.def /\ a.v >= b.v

\* a <= b * num / den   and   a >= b * num / den   and   a > b * num / den
LeScaled(a, b, num, den) == a.def /\ b.def /\ a.v * den <= b.v * num

GeScaled(a, b, num, den) == a.def /\ b.def /\ a.v * den >= b.v * num

GtScaled(a, b, num, den) == a.def /\ b.def /\ a.v * den > b.v * num

Abs(x) == IF x < 0 THEN -x ELSE x

Max2(x, y) == IF x >= y THEN x ELSE y

SetMin(S) == CHOOSE x \in S : \A y \in S : x <= y

SetMax(S) == CHOOSE x \in S : \A y \in S : x >= y

(* --------------------------- column operations ------------------------- *)

\* A column given row by row, as the sequence of its values.
Column(f) == f \o <<>>

\* Series.shift(1)
Shift1(col) == [i \in 1..Len(col) |-> IF i = 1 THEN NaN ELSE col[i - 1]]

\* The rows of the window of `window` rows ending at row i, and its values.
WindowRows(i, window) == (i - window + 1)..i

WindowVals(col, i, window) == {col[j].v : j \in WindowRows(i, window)}

\* Series.rolling(window).min(): NaN until the window holds `window` rows
\* (min_periods defaults to the window) or when a value in it is NaN.
\* RollingMinAt is the value on row i.
RollingMinEarly(col, window) ==
    Column([i \in 1..Len(col) |->
               Num(SetMin({col[j].v : j \in Max2(1, i - window + 1)..i}))])

RollingMinAt(col, i, window) ==
    IF i < window \/ \E j \in WindowRows(i, window) : ~col[j].def
    THEN NaN
    ELSE Num(SetMin(WindowVals(col, i, window)))

RollingMin(col, window) ==
    Column([i \in 1..Len(col) |-> RollingMinAt(col, i, window)])

\* Series.rolling(window).max()
RollingMaxAt(col, i, window) ==
    IF i < window \/ \E j \in WindowRows(i, window) : ~col[j].def
    THEN NaN
    ELSE Num(SetMax(WindowVals(col, i, window)))

RollingMax(col, window) ==
    Column([i \in 1..Len(col) |-> RollingMaxAt(col, i, window)])

\* Series.any()
AnyTrue(mask) == \E i \in 1..Len(mask) : mask[i]

\* The index of df[mask]: the positions where mask is true, in row order.
RECURSIVE BoolIndex(_, _)
BoolIndex(mask, i) ==
    IF i > Len(mask) THEN <<>>
    ELSE (IF mask[i] THEN <<i>> ELSE <<>>) \o BoolIndex(mask, i + 1)

(* ------------------------------ frames --------------------------------- *)

None == [none |-> TRUE]

IsNone(d) == "Open" \notin DOMAIN d

Rows(d) == Len(d.Open)

OHLC == {"Open", "High", "Low", "Close"}

Row(d, i) == [c \in OHLC |-> d[c][i]]

\* pd.concat([df, extra], axis=1) and df[name] = column
WithColumns(d, extra) == extra @@ d

(* ------------------ inputs: what the data source returns --------------- *)

\* The base series: a triangular price wave of period 24 between lows of
\* 100 and 124, entered at phase ph.  Every base bar is a valid bar.
BaseBar(i, ph) ==
    LET low == 100 + 2 * Abs(((i + ph) % 24) - 12)
    IN  [Open |-> Num(low + 1), High |-> Num(low + 4),
         Low |-> Num(low), Close |-> Num(low + 2)]

PricePhases == {0, 12}

\* Price events: bars that close under their low, by 2 and by 5 (the data
\* source does not validate its bars).
PriceKinds == {"close_under", "close_far_under"}

ApplyPrice(bar, kind) ==
    CASE kind = "close_under" -> [bar EXCEPT !.Close = Num(bar.Low.v - 2)]
      [] kind = "close_far_under" ->
            [bar EXCEPT !.Close = Num(bar.Low.v - 5)]

\* First position at which the MACD line, the signal line, the RSI and the
\* rolling levels are all defined; events fall at or after it.
EventFrom == MacdSlow + MacdSignal - 1

\* Sets of at most k cells of C, no two at the same key.
RECURSIVE EventSets(_, _)
EventSets(C, k) ==
    IF k = 0 THEN {{}}
    ELSE LET S == EventSets(C, k - 1)
         IN  S \cup UNION {{s \cup {c} :
                               c \in {x \in C : \A y \in s : y.key # x.key}} :
                            s \in S}

PriceCells(n) ==
    {[key |-> <<i, "bar">>, pos |-> i, kind |-> k] :
        i \in EventFrom..n, k \in PriceKinds}

PriceFrame(n, ph, ev) ==
    LET bar(i) == IF \E e \in ev : e.pos = i
                  THEN ApplyPrice(BaseBar(i, ph),
                                  (CHOOSE e \in ev : e.pos = i).kind)
                  ELSE BaseBar(i, ph)
    IN  [c \in OHLC |-> Column([i \in 1..n |-> bar(i)[c]])]

\* Number of bars of d that are not bars of the base series.
PriceEventCount(d) ==
    SetMin({Cardinality({i \in EventFrom..Rows(d) :
                            Row(d, i) # BaseBar(i, ph)}) : ph \in PricePhases})

(* ------------------ inputs: what the indicator library returns --------- *)

IndicatorPhases == {0, 1}

MacdValues == {0, 1}

RsiValues == {40, 45, 75}

IndicatorCells(n) ==
    {[key |-> <<i, "macd">>, pos |-> i, col |-> "macd", val |-> v] :
        i \in EventFrom..n, v \in MacdValues}
    \cup
    {[key |-> <<i, "rsi">>, pos |-> i, col |-> "rsi", val |-> v] :
        i \in EventFrom..n, v \in RsiValues}

\* Base indicator values: the MACD line alternates one under and one over a
\* signal line at 0, the RSI alternates 40 and 41 with it.
Cell(i, q, ev, col) ==
    IF \E e \in ev : e.pos = i /\ e.col = col
    THEN (CHOOSE e \in ev : e.pos = i /\ e.col = col).val
    ELSE IF col = "macd" THEN (IF (i + q) % 2 = 0 THEN 1 ELSE -1)
         ELSE (IF (i + q) % 2 = 0 THEN 41 ELSE 40)

\* ta.macd(close): the line is NaN on the first slow-1 rows, the signal and
\* the histogram on the first slow+signal-2 rows.
TaMacd(n, q, ev) ==
    LET line == Column([i \in 1..n |->
                    IF i < MacdSlow THEN NaN ELSE Num(Cell(i, q, ev, "macd"))])
        signal == Column([i \in 1..n |->
                    IF i < MacdSlow + MacdSignal - 1 THEN NaN ELSE Num(0)])
        hist == Column([i \in 1..n |->
                    IF line[i].def /\ signal[i].def
                    THEN Num(line[i].v - signal[i].v) ELSE NaN])
    IN  (m_line :> line) @@ (m_hist :> hist) @@ (m_signal :> signal)

\* ta.rsi(close, length): NaN on the first `length` rows.
TaRsi(n, length, q, ev) ==
    Column([i \in 1..n |->
               IF i <= length THEN NaN ELSE Num(Cell(i, q, ev, "rsi"))])

(* --------------------------- sidebar config ---------------------------- *)

\* st.sidebar.slider("Stop Loss Buffer (%)", 0.5, 5.0, 2.0) / 100, in
\* ten-thousandths: the slider's default.
SlBufferChoices == {200}

\* st.sidebar.slider("Min Risk:Reward Ratio", 1.0, 5.0, 1.5), in tenths: the
\* slider's default.
MinRrChoices == {15}

(* ------------------------------ the script ----------------------------- *)

\* if df is not None and len(df) > 30
AdmittedLoose(d) == ~IsNone(d) /\ Rows(d) > sr_period

Admitted(d) == ~IsNone(d) /\ Rows(d) > MinRows

\* --- CALCULATIONS ---: the frame with the MACD columns, RSI, Support,
\* Resistance, Body, Upper_Wick and Is_Rejection added.
Calculated(d, macd, rsi) ==
    LET n == Rows(d)
        support == RollingMin(d.Low, sr_period)
        resistance == RollingMax(d.High, sr_period)
        body == Column([i \in 1..n |->
                           Num(Abs(d.Close[i].v - d.Open[i].v))])
        wick == Column([i \in 1..n |->
                    Num(d.High[i].v - Max2(d.Open[i].v, d.Close[i].v))])
        rejection == Column([i \in 1..n |->
                        GtScaled(wick[i], body[i], WickTenths, 10)
                        /\ GeScaled(d.High[i], resistance[i],
                                    NearResistancePct, 100)])
    IN  WithColumns(WithColumns(d, macd),
            [RSI |-> rsi, Support |-> support, Resistance |-> resistance,
             Body |-> body, Upper_Wick |-> wick, Is_Rejection |-> rejection])

\* cond_buy_price = df['Low'] <= (df['Support'] * 1.02)
CondBuyPrice(d) ==
    Column([i \in 1..Rows(d) |->
        LeScaled(d.Low[i], d.Support[i], NearSupportPct, 100)])

\* cond_buy_rsi = (df['RSI'] < 45) & (df['RSI'] > df['RSI'].shift(1))
CondBuyRsiNotStrict(d) ==
    Column([i \in 1..Rows(d) |->
        Lt(d.RSI[i], Num(RsiBuyLevel)) /\ Ge(d.RSI[i], Shift1(d.RSI)[i])])

CondBuyRsi(d) ==
    Column([i \in 1..Rows(d) |->
        Lt(d.RSI[i], Num(RsiBuyLevel)) /\ Gt(d.RSI[i], Shift1(d.RSI)[i])])

\* cond_buy_macd = (df[m_line] > df[m_signal])
\*                 & (df[m_line].shift(1) <= df[m_signal].shift(1))
CondBuyMacdStrict(d) ==
    Column([i \in 1..Rows(d) |->
        Gt(d[m_line][i], d[m_signal][i])
        /\ Lt(Shift1(d[m_line])[i], Shift1(d[m_signal])[i])])

CondBuyMacd(d) ==
    Column([i \in 1..Rows(d) |->
        Gt(d[m_line][i], d[m_signal][i])
        /\ Le(Shift1(d[m_line])[i], Shift1(d[m_signal])[i])])

\* --- 4. STRATEGY LOGIC ---: the columns the strategy adds to the frame.
StrategyColumnsWithSell(price, rsi, macd) ==
    [Final_Buy |-> Column([i \in 1..Len(price) |->
                              price[i] /\ rsi[i] /\ macd[i]]),
     Final_Sell |-> Column([i \in 1..Len(price) |-> FALSE])]

StrategyColumns(price, rsi, macd) ==
    [Final_Buy |-> Column([i \in 1..Len(price) |->
                              price[i] /\ rsi[i] /\ macd[i]])]

\* has_buy_signal = df['Final_Buy'].any()
HasBuySignalLast(d) == d.Final_Buy[Rows(d)]

HasBuySignal(d) == AnyTrue(d.Final_Buy)

\* last_buy_df = df[df['Final_Buy']]; last_buy_idx = last_buy_df.index[-1]
FirstBuyIdx(d) == BoolIndex(d.Final_Buy, 1)[1]

LastBuyIdx(d) ==
    LET index == BoolIndex(d.Final_Buy, 1) IN index[Len(index)]

\* last_buy_row = df[df['Final_Buy']].iloc[-1]
LastBuyRow(d) ==
    LET index == BoolIndex(d.Final_Buy, 1)
        at == index[Len(index)]
    IN  [Close |-> d.Close[at], Support |-> d.Support[at],
         Resistance |-> d.Resistance[at], date |-> at]

\* float(support * (1 - sl_buffer)), in ten-thousandths
StopLossAbove(support, buffer) == support.v * (10000 + buffer)

StopLoss(support, buffer) == support.v * (10000 - buffer)

\* float(value), in ten-thousandths
Price(value) == value.v * 10000

Zero == [num |-> 0, den |-> 1]

\* rr = reward / risk if risk > 0 else 0
RiskRewardNonzero(reward, risk) ==
    IF risk # 0 THEN [num |-> reward, den |-> risk] ELSE Zero

RiskReward(reward, risk) ==
    IF risk > 0 THEN [num |-> reward, den |-> risk] ELSE Zero

\* rr >= min_rr, min_rr in tenths (the denominator of rr is positive)
RatioAtLeast(rr, tenths) ==
    IF rr.den > 0 THEN rr.num * 10 >= tenths * rr.den
    ELSE rr.num * 10 <= tenths * rr.den

NoFigure == [hlines |-> <<>>, markers |-> <<>>]

NoPanel == [kind |-> "none"]

(* ------------------------------ actions -------------------------------- *)

Init ==
    /\ pc = "start"
    /\ sl_buffer \in SlBufferChoices
    /\ min_rr \in MinRrChoices
    /\ df = None
    /\ cond_buy_price = <<>>
    /\ cond_buy_rsi = <<>>
    /\ cond_buy_macd = <<>>
    /\ has_buy_signal = FALSE
    /\ fig = NoFigure
    /\ col1 = ""
    /\ col2 = ""
    /\ col3 = NoPanel
    /\ notice = ""

\* df = get_data(symbol, days_back): the downloaded frame, or None when the
\* download is empty or raises.
GetData ==
    /\ pc = "start"
    /\ \/ \E n \in 1..MaxBars, ph \in PricePhases :
            \E ev \in EventSets(PriceCells(n), MaxEvents) :
                df' = PriceFrame(n, ph, ev)
       \/ df' = None
    /\ pc' = "loaded"
    /\ UNCHANGED <<sl_buffer, min_rr, cond_buy_price, cond_buy_rsi,
                   cond_buy_macd, has_buy_signal, fig, col1, col2, col3,
                   notice>>

\* else: st.warning(...)
Warn ==
    /\ pc = "loaded"
    /\ ~Admitted(df)
    /\ notice' = "warning"
    /\ pc' = "done"
    /\ UNCHANGED <<sl_buffer, min_rr, df, cond_buy_price, cond_buy_rsi,
                   cond_buy_macd, has_buy_signal, fig, col1, col2, col3>>

\* --- CALCULATIONS ---
Calculations ==
    /\ pc = "loaded"
    /\ Admitted(df)
    /\ \E q \in IndicatorPhases :
        \E ev \in EventSets(IndicatorCells(Rows(df)),
                            MaxEvents - PriceEventCount(df)) :
            df' = Calculated(df, TaMacd(Rows(df), q, ev),
                             TaRsi(Rows(df), RsiLength, q, ev))
    /\ pc' = "strategy"
    /\ UNCHANGED <<sl_buffer, min_rr, cond_buy_price, cond_buy_rsi,
                   cond_buy_macd, has_buy_signal, fig, col1, col2, col3,
                   notice>>

\* --- 4. STRATEGY LOGIC ---
Strategy ==
    /\ pc = "strategy"
    /\ cond_buy_price' = CondBuyPrice(df)
    /\ cond_buy_rsi' = CondBuyRsi(df)
    /\ cond_buy_macd' = CondBuyMacd(df)
    /\ df' = WithColumns(df, StrategyColumns(cond_buy_price', cond_buy_rsi',
                                             cond_buy_macd'))
    /\ pc' = "visualization"
    /\ UNCHANGED <<sl_buffer, min_rr, has_buy_signal, fig, col1, col2, col3,
                   notice>>

\* --- 5. VISUALIZATION & MAPPING ---: the TP and SL lines and the buy
\* markers of the price chart.
Visualization ==
    /\ pc = "visualization"
    /\ has_buy_signal' = HasBuySignal(df)
    /\ IF has_buy_signal'
       THEN LET last_buy_idx == LastBuyIdx(df)
                sl_price == StopLoss(df.Support[last_buy_idx], sl_buffer)
                tp_price == Price(df.Resistance[last_buy_idx])
            IN  fig' = [hlines |-> <<[y |-> tp_price, text |-> "Target TP"],
                                     [y |-> sl_price, text |-> "Stop Loss"]>>,
                        markers |-> BoolIndex(df.Final_Buy, 1)]
       ELSE fig' = NoFigure
    /\ pc' = "dashboard"
    /\ UNCHANGED <<sl_buffer, min_rr, df, cond_buy_price, cond_buy_rsi,
                   cond_buy_macd, col1, col2, col3, notice>>

\* col1: Trend Status
TrendStatus(d) ==
    LET n == Rows(d)
    IN  IF Gt(d[m_line][n], Num(0)) /\ Gt(d.RSI[n], Num(RsiTrendLevel))
        THEN "run_trend"
        ELSE IF Lt(d[m_line][n], Num(0)) THEN "downtrend" ELSE "sideways"

\* col2: Warning Signals
WarningSignal(d) ==
    LET n == Rows(d)
    IN  IF d.Is_Rejection[n] THEN "rejection"
        ELSE IF Gt(d.RSI[n], Num(RsiOverbought)) THEN "overbought"
        ELSE "normal"

\* col3: Risk Control
RiskControl(d, seen, buffer, floor) ==
    IF seen
    THEN LET last_buy_row == LastBuyRow(d)
             entry == Price(last_buy_row.Close)
             tp == Price(last_buy_row.Resistance)
             sl == StopLoss(last_buy_row.Support, buffer)
             risk == entry - sl
             reward == tp - entry
             rr == RiskReward(reward, risk)
         IN  [kind |-> "plan", date |-> last_buy_row.date, entry |-> entry,
              tp |-> tp, sl |-> sl, risk |-> risk, reward |-> reward,
              rr |-> rr,
              color |-> IF RatioAtLeast(rr, floor) THEN "green" ELSE "red"]
    ELSE [kind |-> "info"]

\* --- 6. ADVISORY DASHBOARD ---
Dashboard ==
    /\ pc = "dashboard"
    /\ col1' = TrendStatus(df)
    /\ col2' = WarningSignal(df)
    /\ col3' = RiskControl(df, has_buy_signal, sl_buffer, min_rr)
    /\ pc' = "done"
    /\ UNCHANGED <<sl_buffer, min_rr, df, cond_buy_price, cond_buy_rsi,
                   cond_buy_macd, has_buy_signal, fig, notice>>

Next == GetData \/ Warn \/ Calculations \/ Strategy \/ Visualization \/ Dashboard

Spec == Init /\ [][Next]_vars

(* ------------------------- vocabulary of the claims -------------------- *)

\* The indicator columns are in the frame.
Computed == "RSI" \in DOMAIN df

\* The strategy columns are in the frame.
Decided == "Final_Buy" \in DOMAIN df

Positions == IF IsNone(df) THEN {} ELSE 1..Rows(df)

BothDefined(i) == df[m_line][i].def /\ df[m_signal][i].def

\* macd_line > macd_signal on bar i
Above(i) == BothDefined(i) /\ df[m_line][i].v > df[m_signal][i].v

\* Bar i starts a maximal run of bars with macd_line > macd_signal.
RunStart(i) == Above(i) /\ (i = 1 \/ ~Above(i - 1))

BuyBars == IF Decided THEN {i \in Positions : df.Final_Buy[i]} ELSE {}

\* The three conditions of the confluence rule, written out bar by bar.
NearSupport(i) ==
    /\ df.Support[i].def
    /\ df.Low[i].v * 100 <= df.Support[i].v * NearSupportPct

RsiReversal(i) ==
    /\ i > 1
    /\ df.RSI[i].def /\ df.RSI[i - 1].def
    /\ df.RSI[i].v < RsiBuyLevel
    /\ df.RSI[i].v > df.RSI[i - 1].v

GoldenCross(i) ==
    /\ i > 1
    /\ BothDefined(i) /\ BothDefined(i - 1)
    /\ df[m_line][i].v > df[m_signal][i].v
    /\ df[m_line][i - 1].v <= df[m_signal][i - 1].v

\* The mirrored sell rule of the specification.
DeadCross(i) ==
    /\ i > 1
    /\ BothDefined(i) /\ BothDefined(i - 1)
    /\ df[m_line][i].v < df[m_signal][i].v
    /\ df[m_line][i - 1].v >= df[m_signal][i - 1].v

SellRule(i) ==
    /\ df.Resistance[i].def
    /\ df.High[i].v * 100 >= df.Resistance[i].v * 98
    /\ df.RSI[i].def /\ df.RSI[i].v > RsiOverbought
    /\ DeadCross(i)

\* Bar invariant: positive prices, low <= open, close <= high.
BarInvariant ==
    \A i \in Positions :
        /\ df.Low[i].v > 0
        /\ df.Low[i].v <= df.Open[i].v /\ df.Open[i].v <= df.High[i].v
        /\ df.Low[i].v <= df.Close[i].v /\ df.Close[i].v <= df.High[i].v

\* The largest window the indicators require.
LargestWindow == SetMax({MacdSlow, sr_period, RsiLength})

Window(i) == (i - sr_period + 1)..i

(* -------------------------------- claims ------------------------------- *)

\* C1 (as stated): in every maximal run of bars with macd_line >
\* macd_signal, cond_buy_macd is true on the first bar of the run and on no
\* other, the run that begins on the first bar where both lines are defined
\* included.
C1_OneCrossPerRun ==
    Decided => \A i \in Positions :
                  Above(i) => (cond_buy_macd[i] <=> RunStart(i))

\* C1 (amended): in every maximal run of bars with macd_line > macd_signal,
\* cond_buy_macd is false on every bar but the first, and true on the first
\* bar exactly when the bar before it has both lines defined: the run that
\* begins on the first bar where both lines are defined has no golden cross.
C1_OneCrossPerPrecededRun ==
    Decided => \A i \in Positions :
                  Above(i) => (cond_buy_macd[i] <=>
                                 (RunStart(i) /\ i > 1 /\ BothDefined(i - 1)))

\* A run of at least two bars whose first bar follows a bar with both lines
\* defined: the cross is on its first bar and not on its second.
C1_Witness ==
    /\ Decided
    /\ \E i \in Positions :
        /\ i > 1 /\ i < Rows(df)
        /\ BothDefined(i - 1) /\ RunStart(i) /\ Above(i + 1)
        /\ cond_buy_macd[i] /\ ~cond_buy_macd[i + 1]

\* C2: Final_Buy[t] is true exactly when, on bar t, the low is within 2% of
\* the support, the RSI is under 45 and strictly above its previous value,
\* and the MACD line is above the signal line after being at or under it on
\* the previous bar.
C2_FinalBuyIffAllThree ==
    Decided => \A i \in Positions :
                  df.Final_Buy[i] <=>
                      (NearSupport(i) /\ RsiReversal(i) /\ GoldenCross(i))

\* A frame with a buy bar and with a bar that is near support on a golden
\* cross but whose RSI did not rise: it is not flagged.
C2_Witness ==
    /\ Decided
    /\ BuyBars # {}
    /\ \E i \in Positions :
        /\ NearSupport(i) /\ GoldenCross(i)
        /\ df.RSI[i].v = df.RSI[i - 1].v
        /\ ~df.Final_Buy[i]

\* C3: in the risk panel risk = entry - stop_loss, reward = take_profit -
\* entry, the ratio is reward / risk when risk > 0 and 0 otherwise; when
\* support * (1 - b) >= close on the plan's bar the ratio is exactly 0.
C3_RatioGuarded ==
    (pc = "done" /\ col3.kind = "plan") =>
        /\ col3.risk = col3.entry - col3.sl
        /\ col3.reward = col3.tp - col3.entry
        /\ col3.risk > 0 => col3.rr = [num |-> col3.reward, den |-> col3.risk]
        /\ col3.risk <= 0 => col3.rr = [num |-> 0, den |-> 1]
        /\ LET t == SetMax(BuyBars)
           IN  df.Support[t].v * (10000 - sl_buffer) >= df.Close[t].v * 10000
                  => /\ col3.rr.num = 0
                     /\ col3.rr.den = 1

\* A plan whose stop is at or above its entry: the ratio shown is 0.
C3_Witness ==
    /\ pc = "done"
    /\ col3.kind = "plan"
    /\ LET t == SetMax(BuyBars)
       IN  df.Support[t].v * (10000 - sl_buffer) >= df.Close[t].v * 10000
    /\ col3.risk <= 0
    /\ col3.rr.num = 0

\* C4: when some bar has Final_Buy, the plan is that of the latest such
\* bar: entry is its close, the stop its support * (1 - b), the target its
\* resistance, and the chart's TP and SL lines are the panel's TP and SL.
C4_PlanOfLatestBuy ==
    (pc = "done" /\ BuyBars # {}) =>
        LET t == SetMax(BuyBars)
        IN  /\ col3.kind = "plan"
            /\ col3.date = t
            /\ col3.entry = df.Close[t].v * 10000
            /\ col3.sl = df.Support[t].v * (10000 - sl_buffer)
            /\ col3.tp = df.Resistance[t].v * 10000
            /\ Len(fig.hlines) = 2
            /\ fig.hlines[1].y = col3.tp
            /\ fig.hlines[2].y = col3.sl

\* Two buy bars with different supports, the later one not the last bar.
C4_Witness ==
    /\ pc = "done"
    /\ \E i, j \in BuyBars :
        /\ i < j /\ j < Rows(df)
        /\ df.Support[i] # df.Support[j]
    /\ col3.kind = "plan"

\* C5: for a frame admitted to computation, a plan is produced exactly when
\* some bar has Final_Buy; with no such bar the panel shows the no-signal
\* notice, the chart has no TP/SL line, and no warning or error is raised.
C5_PlanIffBuy ==
    (pc = "done" /\ Admitted(df)) =>
        /\ col3.kind = "plan" <=> BuyBars # {}
        /\ BuyBars = {} => /\ col3 = [kind |-> "info"]
                           /\ fig = NoFigure
                           /\ notice = ""

\* An admitted frame with a golden cross but no buy bar.
C5_Witness ==
    /\ pc = "done"
    /\ Admitted(df)
    /\ BuyBars = {}
    /\ \E i \in Positions : cond_buy_macd[i]
    /\ col3.kind = "info"

\* C6: on a bar where the MACD line, the signal line, the RSI or the support
\* is undefined, or where the MACD line, the signal line or the RSI of the
\* previous bar is undefined (the first bar included), the golden-cross
\* condition and Final_Buy are false.
C6_NoBuyInWarmup ==
    Decided => \A i \in Positions :
                  (\/ ~BothDefined(i) \/ ~df.RSI[i].def \/ ~df.Support[i].def
                   \/ i = 1
                   \/ ~BothDefined(i - 1) \/ ~df.RSI[i - 1].def)
                      => ~cond_buy_macd[i] /\ ~df.Final_Buy[i]

\* The first bar with both lines defined has the MACD line above the signal
\* line, a rising RSI under 45 and a low near support, and is not flagged.
C6_Witness ==
    /\ Decided
    /\ \E i \in Positions :
        /\ i > 1
        /\ ~BothDefined(i - 1)
        /\ Above(i) /\ NearSupport(i) /\ RsiReversal(i)
        /\ ~cond_buy_macd[i] /\ ~df.Final_Buy[i]

\* C7: a frame shorter than the largest indicator window ends in the
\* warning outcome with no column, signal or plan computed, and every frame
\* admitted to computation is at least as long as the largest window.
C7_ShortFrameRejected ==
    /\ Computed => Rows(df) >= LargestWindow
    /\ (~IsNone(df) /\ Rows(df) < LargestWindow) =>
            /\ pc \in {"loaded", "done"}
            /\ DOMAIN df = OHLC
            /\ cond_buy_macd = <<>>
            /\ fig = NoFigure
            /\ col3 = NoPanel
            /\ pc = "done" => notice = "warning"

\* A frame of 10 bars ended in the warning outcome.
C7_Witness ==
    /\ pc = "done"
    /\ ~IsNone(df)
    /\ Rows(df) = sr_period \div 2
    /\ notice = "warning"

C9_RollingLevels ==
    Computed => \A i \in Positions :
        /\ i < sr_period => ~df.Support[i].def /\ ~df.Resistance[i].def
        /\ i >= sr_period =>
            LET lows == {df.Low[j].v : j \in Window(i)}
                highs == {df.High[j].v : j \in Window(i)}
            IN  /\ df.Support[i].def /\ df.Resistance[i].def
                /\ df.Support[i].v \in lows
                /\ \A x \in lows : df.Support[i].v <= x
                /\ df.Resistance[i].v \in highs
                /\ \A x \in highs : df.Resistance[i].v >= x
        /\ df.Support[i] = RollingMinAt(SubSeq(df.Low, 1, i), i, sr_period)
        /\ df.Resistance[i] = RollingMaxAt(SubSeq(df.High, 1, i), i, sr_period)

\* The levels start on bar sr_period; on some bar the support is the low of
\* an earlier bar of the window, and on some bar the low of the first bar of
\* the window.
C9_Witness ==
    /\ Computed
    /\ ~df.Support[sr_period - 1].def
    /\ df.Support[sr_period].def
    /\ \E i \in Positions : /\ df.Support[i].def
                            /\ df.Support[i].v < df.Low[i].v
    /\ \E i \in Positions :
        /\ df.Support[i].def
        /\ df.Support[i].v = df.Low[i - sr_period + 1].v
        /\ \A j \in Window(i) \ {i - sr_period + 1} :
              df.Support[i].v < df.Low[j].v

\* C10: for a frame of valid bars, support <= close <= resistance wherever
\* the levels are defined; on every Final_Buy bar stop_loss < entry <=
\* take_profit, so the plan has risk > 0, reward >= 0 and a ratio reward /
\* risk that is not negative.
C10_ValidBarsPositiveRisk ==
    (Computed /\ BarInvariant) =>
        /\ \A i \in Positions :
              df.Support[i].def =>
                  /\ df.Support[i].v <= df.Close[i].v
                  /\ df.Close[i].v <= df.Resistance[i].v
        /\ Decided => \A i \in BuyBars :
              /\ df.Support[i].v * (10000 - sl_buffer) < df.Close[i].v * 10000
              /\ df.Close[i].v <= df.Resistance[i].v
        /\ (pc = "done" /\ col3.kind = "plan") =>
              /\ col3.sl < col3.entry /\ col3.entry <= col3.tp
              /\ col3.risk > 0 /\ col3.reward >= 0
              /\ col3.rr = [num |-> col3.reward, den |-> col3.risk]

\* A plan made on a frame of valid bars.
C10_Witness ==
    /\ pc = "done"
    /\ BarInvariant
    /\ col3.kind = "plan"
    /\ col3.risk > 0

====
